---- MODULE Spec2Model ----
(***************************************************************************)
(* Model of papyrus' rust code completion (src/complete/code.rs):          *)
(*   CodeCompleter::build / inject / complete, CodeCache and the           *)
(*   PapyrusCodeFileLoader file loader handed to racer.                    *)
(*                                                                         *)
(* Text is modelled as what a rust String is: a sequence of bytes          *)
(* (0..255) that is valid UTF-8.  Byte offsets are 0-based as in the       *)
(* source; TLA+ sequences are 1-based, so B[a..b) is SubSeq(B, a+1, b).    *)
(***************************************************************************)
EXTENDS Integers, Sequences, FiniteSets, TLC

VARIABLES
    repl_data,  \* the repl state build() reads: [file_map, current_file]
    cc,         \* the CodeCompleter last built: [last_code, split], or NoCompleter
    cache,      \* CodeCache.cache: file name -> cached text (a partial map)
    pc,         \* position inside complete(): idle / session / injected / installed
    req,        \* the running (or last) complete()/inject() call: [self, injection, limit]
    ret,        \* what inject() returned to its caller (or NoRet)
    query,      \* what racer::complete_from_file was asked: [file, pos, text] (or NoQuery)
    engine,     \* the match sequence racer produced for that query
    out,        \* the Vec<Match> complete() returned
    trace,      \* the calls complete() has made so far in the running (or last) request
    disk,       \* storage: path -> [kind, bytes]
    path,       \* the path load_file was last called with (or NoPath)
    loaded,     \* what load_file returned (or NoLoad)
    reads,      \* the paths load_file has passed to File::open
    replaced    \* whether the last install overwrote a different cached text

vars == <<repl_data, cc, cache, pc, req, ret, query, engine, out, trace,
          disk, path, loaded, reads, replaced>>

----------------------------------------------------------------------------
(* Bounds of the model. *)

\* longest base text and longest fragment drawn for direct inject() calls
MaxLen == 4
MaxInj == 2
\* longest accumulated text of one file of the repl's file map
MaxCode == 1
\* longest fragment passed to complete()
MaxFrag == 1
\* largest Some(limit) passed to complete()
MaxLimit == 1
\* longest match sequence the engine produces
MaxMatches == 2
\* longest file on disk, in bytes
MaxFile == 6

----------------------------------------------------------------------------
(* Bytes, UTF-8 and strings. *)

LIBRS == "lib.rs"

NoCompleter == [none |-> "completer"]
NoRet       == [none |-> "ret"]
NoQuery     == [none |-> "query"]
NoLoad      == [none |-> "load"]
NoPath      == "<none>"
\* Option<usize>: None is the empty sequence, Some(n) the sequence of n alone
None        == <<>>
Some(n)     == <<n>>

\* the bytes texts are drawn from: 'a', 'b' and the two bytes of U+00E9
TextBytes == {97, 98, 195, 169}
\* the bytes the repl's accumulated code and complete()'s fragments are drawn from
CodeBytes == {97, 195, 169}
\* the bytes files on disk are drawn from: the BOM's three bytes and 'a'
FileBytes == {239, 187, 191, 97}

BOM == <<239, 187, 191>>

SeqsUpTo(S, n) == UNION {[1..k -> S] : k \in 0..n}

IsCont(b) == b >= 128 /\ b <= 191

\* Number of bytes of the UTF-8 scalar value starting at bytes[i], or 0 when
\* no well-formed one starts there (core::str::from_utf8's validation).
Utf8Width(bytes, i) ==
    LET n    == Len(bytes)
        b    == bytes[i]
        c(k) == i + k <= n /\ IsCont(bytes[i + k])
        r(k, lo, hi) == i + k <= n /\ bytes[i + k] >= lo /\ bytes[i + k] <= hi
    IN  IF b < 128 THEN 1
        ELSE IF b >= 194 /\ b <= 223 THEN (IF c(1) THEN 2 ELSE 0)
        ELSE IF b = 224 THEN (IF r(1, 160, 191) /\ c(2) THEN 3 ELSE 0)
        ELSE IF (b >= 225 /\ b <= 236) \/ b = 238 \/ b = 239
             THEN (IF c(1) /\ c(2) THEN 3 ELSE 0)
        ELSE IF b = 237 THEN (IF r(1, 128, 159) /\ c(2) THEN 3 ELSE 0)
        ELSE IF b = 240 THEN (IF r(1, 144, 191) /\ c(2) /\ c(3) THEN 4 ELSE 0)
        ELSE IF b >= 241 /\ b <= 243 THEN (IF c(1) /\ c(2) /\ c(3) THEN 4 ELSE 0)
        ELSE IF b = 244 THEN (IF r(1, 128, 143) /\ c(2) /\ c(3) THEN 4 ELSE 0)
        ELSE 0

RECURSIVE Utf8ValidFrom(_, _)
Utf8ValidFrom(bytes, i) ==
    IF i > Len(bytes) THEN TRUE
    ELSE LET w == Utf8Width(bytes, i)
         IN  w > 0 /\ Utf8ValidFrom(bytes, i + w)

\* std::str::from_utf8 / String::from_utf8 succeed exactly on these
Utf8Valid(bytes) == Utf8ValidFrom(bytes, 1)

\* the rust Strings of at most n bytes over the bytes S
Strings(S, n) == {t \in SeqsUpTo(S, n) : Utf8Valid(t)}

\* str::is_char_boundary(i), i a 0-based byte offset
is_char_boundary(text, i) ==
    \/ i = 0
    \/ i = Len(text)
    \/ i > 0 /\ i < Len(text) /\ ~IsCont(text[i + 1])

\* the byte ranges s..e of text with 0 <= s <= e <= len
Ranges(text) ==
    {r \in [start : 0..Len(text), end : 0..Len(text)] : r.start <= r.end}

\* those of them that fall on char boundaries at both ends
CharRanges(text) ==
    {r \in Ranges(text) : is_char_boundary(text, r.start) /\ is_char_boundary(text, r.end)}

----------------------------------------------------------------------------
(* CodeCompleter::inject *)

\* (mutant) the subtraction done first: split.start - split.end + len + inj.len
cap_steps_sub_first(len, s, e, inj) == <<s - e, s - e + len, s - e + len + inj>>

\* The intermediate values of
\*   self.last_code.len() + self.split.start - self.split.end + injection.len()
\* evaluated left to right, as mathematical integers.
cap_steps(len, s, e, inj) == <<len + s, len + s - e, len + s - e + inj>>

\* &text[..i] and &text[i..] panic unless i <= len and i is a char boundary
slice_ok(text, i) == i <= Len(text) /\ is_char_boundary(text, i)

\* (mutant) the fragment pushed last, after the retained suffix
pushed_fragment_last(B, s, e, injection) ==
    SubSeq(B, 1, s) \o SubSeq(B, e + 1, Len(B)) \o injection

\* the three push_str calls: last_code[..start], injection, last_code[end..]
pushed(B, s, e, injection) ==
    SubSeq(B, 1, s) \o injection \o SubSeq(B, e + 1, Len(B))

\* (mutant) the cursor measured from the end of the cut region
cursor_from_end(s, e, injection) == e + Len(injection)

\* (self.split.start + injection.len()).into()
cursor(s, e, injection) == s + Len(injection)

\* (mutant) the suffix taken from split.start: the cut region is kept
inject_keeping_cut(self, injection) ==
    LET B     == self.last_code
        s     == self.split.start
        e     == self.split.end
        steps == cap_steps(Len(B), s, e, Len(injection))
        text  == pushed(B, s, s, injection)
        fail(why) == [status |-> why, text |-> <<>>, pos |-> 0, steps |-> steps]
    IN  IF \E i \in 1..3 : steps[i] < 0 THEN fail("panic_arith")
        ELSE IF ~slice_ok(B, s)         THEN fail("panic_slice")
        ELSE IF Len(text) # steps[3]    THEN fail("panic_assert")
        ELSE [status |-> "ok", text |-> text, pos |-> cursor(s, e, injection),
              steps |-> steps]

\* inject(&self, injection) -> (String, BytePos), with the ways it can panic.
inject(self, injection) ==
    LET B     == self.last_code
        s     == self.split.start
        e     == self.split.end
        steps == cap_steps(Len(B), s, e, Len(injection))
        cap   == steps[3]
        text  == pushed(B, s, e, injection)
        fail(why) == [status |-> why, text |-> <<>>, pos |-> 0, steps |-> steps]
    IN  IF \E i \in 1..3 : steps[i] < 0 THEN fail("panic_arith")
        ELSE IF ~slice_ok(B, s)         THEN fail("panic_slice")
        ELSE IF ~slice_ok(B, e)         THEN fail("panic_slice")
        ELSE IF Len(text) # cap         THEN fail("panic_assert")
        ELSE [status |-> "ok", text |-> text, pos |-> cursor(s, e, injection),
              steps |-> steps]

----------------------------------------------------------------------------
(* The repl state and CodeCompleter::build *)

FileIds   == {"main.rs", "util.rs"}
\* the file map's iteration order
FileOrder == <<"main.rs", "util.rs">>

\* one file of the file map: its accumulated code and the range of it where
\* code in progress goes
Sources == UNION {{[code |-> t, split |-> r] : r \in CharRanges(t)} :
                  t \in Strings(CodeBytes, MaxCode)}

FileMaps == UNION {[D -> Sources] : D \in SUBSET FileIds}

ReplDatas == [file_map : FileMaps, current_file : FileIds]

\* pfh::code::construct_source_code(file_map, linking): the source of the whole
\* crate, and for each file of the map its range within that source.  It is
\* not given the current file.
RECURSIVE construct_from(_, _, _, _)
construct_from(file_map, i, code, map) ==
    IF i > Len(FileOrder) THEN <<code, map>>
    ELSE LET f == FileOrder[i]
         IN  IF f \notin DOMAIN file_map
             THEN construct_from(file_map, i + 1, code, map)
             ELSE LET src == file_map[f]
                      off == Len(code)
                      rng == [start |-> off + src.split.start,
                              end   |-> off + src.split.end]
                  IN  construct_from(file_map, i + 1, code \o src.code,
                          [g \in DOMAIN map \cup {f} |->
                              IF g = f THEN rng ELSE map[g]])

construct_source_code(file_map) ==
    construct_from(file_map, 1, <<>>, [g \in {} |-> [start |-> 0, end |-> 0]])

\* map.get(current_file).cloned().unwrap_or(0..0)
split_or_empty(map, current_file) ==
    IF current_file \in DOMAIN map THEN map[current_file]
    ELSE [start |-> 0, end |-> 0]

\* (mutant) a missing current file also empties the base text
build_empty_on_missing(data) ==
    LET built == construct_source_code(data.file_map)
    IN  IF data.current_file \in DOMAIN built[2]
        THEN [last_code |-> built[1], split |-> built[2][data.current_file]]
        ELSE [last_code |-> <<>>, split |-> [start |-> 0, end |-> 0]]

\* CodeCompleter::build(repl_data)
build(data) ==
    LET built == construct_source_code(data.file_map)
    IN  [last_code |-> built[1],
         split     |-> split_or_empty(built[2], data.current_file)]

----------------------------------------------------------------------------
(* CodeCache, the racer session and the file loader *)

Paths == {LIBRS, "dep.rs"}

Missing    == [kind |-> "missing",    bytes |-> <<>>]
Unreadable == [kind |-> "unreadable", bytes |-> <<>>]
FileStates == {Missing, Unreadable} \cup
              {[kind |-> "file", bytes |-> b] : b \in SeqsUpTo(FileBytes, MaxFile)}

\* (mutant) the length test off by one: rawbytes.len() > 3
has_bom_longer(rawbytes) == Len(rawbytes) > 3 /\ SubSeq(rawbytes, 1, 3) = BOM

\* rawbytes.len() > 2 && rawbytes[0..3] == [0xEF, 0xBB, 0xBF]
has_bom(rawbytes) == Len(rawbytes) > 2 /\ SubSeq(rawbytes, 1, 3) = BOM

\* std::str::from_utf8 / String::from_utf8 mapped into io::Result<String>
decode(bytes, opened) ==
    IF Utf8Valid(bytes)
    THEN [ok |-> TRUE,  text |-> bytes, err |-> "none",   opened |-> opened]
    ELSE [ok |-> FALSE, text |-> <<>>,  err |-> "decode", opened |-> opened]

\* (mutant) racer's own loader, without the special case for lib.rs
load_file_plain(dsk, p) ==
    LET f == dsk[p]
    IN  IF f.kind # "file"
        THEN [ok |-> FALSE, text |-> <<>>, err |-> "io", opened |-> {p}]
        ELSE IF has_bom(f.bytes)
             THEN decode(SubSeq(f.bytes, 4, Len(f.bytes)), {p})
             ELSE decode(f.bytes, {p})

\* PapyrusCodeFileLoader::load_file(path) on storage dsk; opened are the paths
\* it handed to File::open.
load_file(dsk, p) ==
    IF p = LIBRS
    THEN [ok |-> TRUE, text |-> <<>>, err |-> "none", opened |-> {}]
    ELSE LET f == dsk[p]
         IN  IF f.kind # "file"
             THEN [ok |-> FALSE, text |-> <<>>, err |-> "io", opened |-> {p}]
             ELSE IF has_bom(f.bytes)
                  THEN decode(SubSeq(f.bytes, 4, Len(f.bytes)), {p})
                  ELSE decode(f.bytes, {p})

EmptyCache == [p \in {} |-> <<>>]

\* (mutant) an entry already cached is kept: insert only when absent
cache_file_contents_if_absent(c, name, contents) ==
    [p \in DOMAIN c \cup {name} |-> IF p \in DOMAIN c THEN c[p] ELSE contents]

\* session.cache_file_contents(name, contents)
cache_file_contents(c, name, contents) ==
    [p \in DOMAIN c \cup {name} |-> IF p = name THEN contents ELSE c[p]]

\* the text racer's session sees for a file: the cached one, else the loader's
session_text(c, dsk, name) ==
    IF name \in DOMAIN c THEN c[name] ELSE load_file(dsk, name).text

----------------------------------------------------------------------------
(* CodeCompleter::complete *)

Matches == {"apple", "apply"}
Limits  == {None} \cup {Some(n) : n \in 0..MaxLimit}

\* std::usize::MAX, as far as TLC's integers go
USIZE_MAX == 2147483647

\* limit.unwrap_or(std::usize::MAX)
unwrap_limit(limit) == IF Len(limit) = 0 THEN USIZE_MAX ELSE limit[1]

\* (mutant) the last n matches instead of the first n
take_last(s, n) == IF n >= Len(s) THEN s ELSE SubSeq(s, Len(s) - n + 1, Len(s))

\* Iterator::take(n).collect()
take(s, n) == IF n >= Len(s) THEN s ELSE SubSeq(s, 1, n)

\* the completer the session layer builds before a request
Build ==
    /\ pc = "idle"
    /\ cc' = build(repl_data)
    /\ UNCHANGED <<repl_data, cache, pc, req, ret, query, engine, out, trace,
                   disk, path, loaded, reads, replaced>>

\* the session layer makes another file the current one
SetCurrentFile(f) ==
    /\ pc = "idle"
    /\ f # repl_data.current_file
    /\ repl_data' = [repl_data EXCEPT !.current_file = f]
    /\ UNCHANGED <<cc, cache, pc, req, ret, query, engine, out, trace,
                   disk, path, loaded, reads, replaced>>

\* complete() is entered: limit is unwrapped and the session is opened
CompleteStart(injection, limit) ==
    /\ pc = "idle"
    /\ cc # NoCompleter
    /\ req' = [self |-> cc, injection |-> injection, limit |-> limit]
    /\ ret' = NoRet
    /\ query' = NoQuery
    /\ engine' = <<>>
    /\ out' = <<>>
    /\ trace' = <<"session">>
    /\ pc' = "session"
    /\ UNCHANGED <<repl_data, cc, cache, disk, path, loaded, reads, replaced>>

\* let (contents, pos) = self.inject(injection); a panic ends the request
CompleteInject ==
    /\ pc = "session"
    /\ ret' = inject(req.self, req.injection)
    /\ IF ret'.status = "ok"
       THEN pc' = "injected" /\ trace' = Append(trace, "inject")
       ELSE pc' = "idle" /\ trace' = Append(trace, "panic")
    /\ UNCHANGED <<repl_data, cc, cache, req, query, engine, out,
                   disk, path, loaded, reads, replaced>>

\* session.cache_file_contents(LIBRS, contents)
CompleteInstall ==
    /\ pc = "injected"
    /\ cache' = cache_file_contents(cache, LIBRS, ret.text)
    /\ trace' = Append(trace, "install")
    /\ pc' = "installed"
    /\ replaced' = (LIBRS \in DOMAIN cache /\ cache[LIBRS] # ret.text)
    /\ UNCHANGED <<repl_data, cc, req, ret, query, engine, out,
                   disk, path, loaded, reads>>

\* (mutant) the engine queried right after inject, before the install
CompleteQueryBeforeInstall(results) ==
    /\ pc = "injected"
    /\ query' = [file |-> LIBRS, pos |-> ret.pos,
                 text |-> session_text(cache, disk, LIBRS)]
    /\ engine' = results
    /\ out' = results
    /\ trace' = Append(trace, "query")
    /\ pc' = "idle"
    /\ UNCHANGED <<repl_data, cc, cache, req, ret, disk, path, loaded, reads,
                   replaced>>

\* racer::complete_from_file(LIBRS, Location::Point(pos), &session)
\*     .take(limit).collect(); the engine's matches are any sequence
CompleteQuery(results) ==
    /\ pc = "installed"
    /\ query' = [file |-> LIBRS, pos |-> ret.pos,
                 text |-> session_text(cache, disk, LIBRS)]
    /\ engine' = results
    /\ out' = take(results, unwrap_limit(req.limit))
    /\ trace' = Append(trace, "query")
    /\ pc' = "idle"
    /\ UNCHANGED <<repl_data, cc, cache, req, ret, disk, path, loaded, reads,
                   replaced>>

\* a direct call of the public inject()
InjectCall(injection) ==
    /\ pc = "idle"
    /\ cc # NoCompleter
    /\ req' = [self |-> cc, injection |-> injection, limit |-> None]
    /\ ret' = inject(cc, injection)
    /\ UNCHANGED <<repl_data, cc, cache, pc, query, engine, out, trace,
                   disk, path, loaded, reads, replaced>>

\* the engine (or anyone) resolves a path through the loader
LoadFile(p) ==
    /\ path' = p
    /\ loaded' = load_file(disk, p)
    /\ reads' = reads \cup loaded'.opened
    /\ UNCHANGED <<repl_data, cc, cache, pc, req, ret, query, engine, out,
                   trace, disk, replaced>>

----------------------------------------------------------------------------
(* Specifications *)

NoDisk == [p \in Paths |-> Missing]
NoRepl == [file_map |-> [g \in {} |-> 0], current_file |-> "main.rs"]

\* the repl with its completion cache: the session layer builds a completer
\* from the repl state and serves complete() requests one at a time
Init ==
    /\ repl_data \in ReplDatas
    /\ cc = NoCompleter
    /\ cache = EmptyCache
    /\ pc = "idle"
    /\ req = [self |-> NoCompleter, injection |-> <<>>, limit |-> None]
    /\ ret = NoRet
    /\ query = NoQuery
    /\ engine = <<>>
    /\ out = <<>>
    /\ trace = <<>>
    /\ disk = NoDisk
    /\ path = NoPath
    /\ loaded = NoLoad
    /\ reads = {}
    /\ replaced = FALSE

Next ==
    \/ Build
    \/ \E f \in FileIds : SetCurrentFile(f)
    \/ \E injection \in Strings(CodeBytes, MaxFrag), limit \in Limits :
           CompleteStart(injection, limit)
    \/ CompleteInject
    \/ CompleteInstall
    \/ \E results \in SeqsUpTo(Matches, MaxMatches) : CompleteQuery(results)

Spec == Init /\ [][Next]_vars

\* inject() as a function of the completer's fields and the fragment: every
\* base text and every byte range 0 <= s <= e <= len
InitInject ==
    /\ \E B \in Strings(TextBytes, MaxLen) : \E r \in Ranges(B) :
           cc = [last_code |-> B, split |-> r]
    /\ repl_data = NoRepl
    /\ cache = EmptyCache
    /\ pc = "idle"
    /\ req = [self |-> NoCompleter, injection |-> <<>>, limit |-> None]
    /\ ret = NoRet
    /\ query = NoQuery
    /\ engine = <<>>
    /\ out = <<>>
    /\ trace = <<>>
    /\ disk = NoDisk
    /\ path = NoPath
    /\ loaded = NoLoad
    /\ reads = {}
    /\ replaced = FALSE

NextInject == \E injection \in Strings(TextBytes, MaxInj) : InjectCall(injection)

SpecInject == InitInject /\ [][NextInject]_vars

\* the loader against every storage state with at most one path present,
\* before and after a composed source has been installed in the cache
InitLoad ==
    /\ \E p \in Paths : \E f \in FileStates :
           disk = [q \in Paths |-> IF q = p THEN f ELSE Missing]
    /\ cache \in {EmptyCache, cache_file_contents(EmptyCache, LIBRS, <<97>>)}
    /\ repl_data = NoRepl
    /\ cc = NoCompleter
    /\ pc = "idle"
    /\ req = [self |-> NoCompleter, injection |-> <<>>, limit |-> None]
    /\ ret = NoRet
    /\ query = NoQuery
    /\ engine = <<>>
    /\ out = <<>>
    /\ trace = <<>>
    /\ path = NoPath
    /\ loaded = NoLoad
    /\ reads = {}
    /\ replaced = FALSE

NextLoad == \E p \in Paths : LoadFile(p)

SpecLoad == InitLoad /\ [][NextLoad]_vars

----------------------------------------------------------------------------
(* The claims *)

\* an inject() call has returned normally
Injected == ret # NoRet /\ ret.status = "ok"

\* the last complete() request ran to its end
Completed == pc = "idle" /\ query # NoQuery

\* C1: whenever inject(F) returns, the returned text is B[0..s) followed by F
\* followed by B[e..len): byte i of it is B's byte i before s, F's byte i - s
\* within the fragment, and B's byte i - len(F) + (e - s) after it.
C1_InjectContent ==
    Injected =>
        LET B == req.self.last_code
            s == req.self.split.start
            e == req.self.split.end
            F == req.injection
            T == ret.text
        IN  /\ Len(T) = s + Len(F) + (Len(B) - e)
            /\ \A i \in 1..Len(T) :
                   T[i] = IF i <= s THEN B[i]
                          ELSE IF i <= s + Len(F) THEN F[i - s]
                          ELSE B[i - Len(F) + (e - s)]

\* C1 witness: a net shrink with a non-empty prefix, fragment and suffix
C1_Witness ==
    /\ Injected
    /\ req.self.split.start > 0
    /\ req.self.split.end < Len(req.self.last_code)
    /\ Len(req.injection) > 0
    /\ Len(req.injection) < req.self.split.end - req.self.split.start

\* C2: the text inject(F) returns is len(B) + len(F) - (e - s) bytes long, and
\* inject never fails on its debug assertion s.len() == cap.
C2_InjectSize ==
    ret # NoRet =>
        /\ ret.status # "panic_assert"
        /\ ret.status = "ok" =>
               Len(ret.text) = Len(req.self.last_code) + Len(req.injection)
                                   - (req.self.split.end - req.self.split.start)

\* C2 witness: a net growth that replaces a non-empty cut region
C2_Witness ==
    /\ Injected
    /\ req.self.split.end > req.self.split.start
    /\ Len(req.injection) > req.self.split.end - req.self.split.start
    /\ Len(ret.text) > Len(req.self.last_code)

\* C3: the cursor inject(F) returns is s + len(F), whatever e and the suffix
\* are, and the len(F) bytes of the text that end there are F.
C3_InjectCursor ==
    Injected =>
        /\ ret.pos = req.self.split.start + Len(req.injection)
        /\ ret.pos <= Len(ret.text)
        /\ SubSeq(ret.text, ret.pos - Len(req.injection) + 1, ret.pos) = req.injection

\* C3 witness: a fragment put in place of a cut region, before a retained suffix
C3_Witness ==
    /\ Injected
    /\ Len(req.injection) = 2
    /\ req.self.split.end > req.self.split.start
    /\ req.self.split.end < Len(req.self.last_code)
    /\ ret.pos < Len(ret.text)

\* C10: no intermediate value of len(B) + s - e + len(F), taken left to right,
\* is below zero, and inject never fails on its arithmetic.
C10_NoUnderflow ==
    ret # NoRet =>
        /\ \A i \in 1..3 : ret.steps[i] >= 0
        /\ ret.status # "panic_arith"

\* C10 witness: the whole base text cut (s = 0, e = len) for a shorter fragment
C10_Witness ==
    /\ Injected
    /\ req.self.split.start = 0
    /\ req.self.split.end = Len(req.self.last_code)
    /\ Len(req.self.last_code) > Len(req.injection)

\* the completer of the request was built from the present repl state, whose
\* current file has no entry in the file map
BuiltWithoutCurrentFile ==
    /\ ret # NoRet
    /\ repl_data.current_file \notin DOMAIN repl_data.file_map
    /\ cc = build(repl_data)
    /\ req.self = cc

C5_Limit ==
    Completed =>
        IF req.limit = None
        THEN out = engine
        ELSE LET N == req.limit[1]
             IN  /\ Len(out) = (IF N <= Len(engine) THEN N ELSE Len(engine))
                 /\ \A i \in 1..Len(out) : out[i] = engine[i]

\* C5 witness: two different matches cut to one
C5_Witness ==
    /\ Completed
    /\ req.limit = Some(1)
    /\ Len(engine) = 2
    /\ engine[1] # engine[2]
    /\ Len(out) = 1

\* e1 and e2 both happened in the request, e1 first
Before(e1, e2) ==
    \E i, j \in 1..Len(trace) : i < j /\ trace[i] = e1 /\ trace[j] = e2

\* C8 as stated: inject, then the install, then the session is opened, then
\* the query; the session is opened only after the install.
C8_SessionAfterInstall ==
    /\ Completed => trace = <<"inject", "install", "session", "query">>
    /\ \A i \in 1..Len(trace) : trace[i] = "session" => Before("install", "session")
    /\ \A i \in 1..Len(trace) : trace[i] = "query" => Before("install", "query")

\* C8 amended: the session is opened first, then inject computes the text and
\* the cursor, then the text is installed under lib.rs, then the engine is
\* queried; the query never runs before the install.
C8_SessionFirst ==
    /\ Completed => trace = <<"session", "inject", "install", "query">>
    /\ \A i \in 1..Len(trace) : trace[i] = "inject" => Before("session", "inject")
    /\ \A i \in 1..Len(trace) : trace[i] = "install" => Before("inject", "install")
    /\ \A i \in 1..Len(trace) : trace[i] = "query" => Before("install", "query")

\* C8 witness: a request that ran all four steps
C8_Witness == Completed /\ Len(trace) = 4 /\ trace[4] = "query"

\* the composed text and the cursor of the request req, from its own completer
\* and fragment
ComposedOf(r) ==
    SubSeq(r.self.last_code, 1, r.self.split.start) \o r.injection
        \o SubSeq(r.self.last_code, r.self.split.end + 1, Len(r.self.last_code))

\* C9: after a request the cache entry of lib.rs is that request's composed
\* text, and the engine was asked about that text and that request's cursor.
C9_CacheIsLastRequest ==
    Completed =>
        /\ LIBRS \in DOMAIN cache
        /\ cache[LIBRS] = ComposedOf(req)
        /\ query.file = LIBRS
        /\ query.text = ComposedOf(req)
        /\ query.pos = req.self.split.start + Len(req.injection)

\* C9 witness: a request whose install overwrote another request's text
C9_Witness == Completed /\ replaced /\ cache[LIBRS] = ComposedOf(req)

\* C6: load_file("lib.rs") returns Ok of the empty text and opens nothing,
\* whatever is on disk under that name and whatever the cache holds.
C6_VirtualEntryPoint ==
    /\ LIBRS \notin reads
    /\ path = LIBRS =>
           /\ loaded.ok
           /\ loaded.text = <<>>
           /\ loaded.opened = {}

\* C6 witness: lib.rs resolved while a file of that name is on disk and a
\* composed source is installed in the cache
C6_Witness ==
    /\ path = LIBRS
    /\ loaded.ok
    /\ disk[LIBRS].kind = "file"
    /\ Len(disk[LIBRS].bytes) > 0
    /\ LIBRS \in DOMAIN cache

\* C7: for any other path load_file returns an I/O error when the file cannot
\* be opened or read; else with D the bytes after a leading EF BB BF (D all the
\* bytes when there is none, or fewer than three bytes), a decoding error when
\* D is not valid UTF-8 and the text D when it is.
C7_BomAndDecode ==
    (path # NoPath /\ path # LIBRS) =>
        LET f == disk[path]
            n == Len(f.bytes)
            marked == /\ n >= 3
                      /\ f.bytes[1] = 239 /\ f.bytes[2] = 187 /\ f.bytes[3] = 191
            D == [i \in 1..(IF marked THEN n - 3 ELSE n) |->
                      f.bytes[IF marked THEN i + 3 ELSE i]]
        IN  IF f.kind # "file" THEN ~loaded.ok /\ loaded.err = "io"
            ELSE IF Utf8Valid(D) THEN loaded.ok /\ loaded.text = D
            ELSE ~loaded.ok /\ loaded.err = "decode"

\* C7 witness: a file of two byte-order marks decodes to the second one
C7_Witness ==
    /\ path = "dep.rs"
    /\ disk[path].kind = "file"
    /\ disk[path].bytes = BOM \o BOM
    /\ loaded.ok
    /\ loaded.text = BOM

====
